---- MODULE Spec2Model ----
(***************************************************************************)
(* The recipe analysis run of notion-recipe-organizer:                     *)
(*   analyze (commands/analyze_cmd.py) resolves the effective settings and *)
(*   calls RecipeAnalyzer.categorize_recipes_llm (notion_client/           *)
(*   analyzer.py), which selects the working set, drives the worker over   *)
(*   it (in one pass or in batches) and folds every outcome into the       *)
(*   report.                                                               *)
(***************************************************************************)
EXTENDS Integers, Sequences, FiniteSets, TLC

\* ------------------------------------------------------------------ bounds
\* Largest source collection explored.
MaxN == 3
\* Largest report put under review.
MaxRows == 2
\* Most changes the reviewer makes to an exported table.
MaxEdits == 2
\* Most steps requested of one pipeline.
MaxSteps == 3

\* ------------------------------------------------------- Python primitives
\* Optional[int]: None is the empty tuple, a value n is <<n>>.
None == <<>>
Some(n) == <<n>>
IsNone(x) == x = None
Val(x) == x[1]
Opt(S) == {None} \cup {Some(n) : n \in S}

\* `x or d` on an Optional[int]: None and 0 are both falsy.
OrElse(x, d) == IF IsNone(x) \/ Val(x) = 0 THEN d ELSE Val(x)

\* truthiness of an Optional[int] (`if batch_size`, `elif sample_size`)
TruthyInt(x) == ~IsNone(x) /\ Val(x) # 0

\* Python's // (floor division; b # 0)
FloorDiv(a, b) == IF b > 0 THEN a \div b ELSE (0 - a) \div (0 - b)

Min(a, b) == IF a < b THEN a ELSE b

\* a slice bound as Python normalises it against a list of length n
Norm(i, n) == IF i < 0 THEN (IF i + n < 0 THEN 0 ELSE i + n)
              ELSE (IF i > n THEN n ELSE i)

\* s[lo:hi] for integer lo, hi (0-based, hi exclusive, negative bounds wrap)
PySlice(s, lo, hi) ==
    LET a == Norm(lo, Len(s))
        b == Norm(hi, Len(s))
    IN  IF b <= a THEN <<>> ELSE SubSeq(s, a + 1, b)

\* ------------------------------------------------------------- JSON values
\* What json.loads can return, tagged by Python type.
JNull == [t |-> "null", v |-> 0]
JBool(b) == [t |-> "bool", v |-> b]
JNum(n) == [t |-> "num", v |-> n]
JStr(s) == [t |-> "str", v |-> s]
JArr(s) == [t |-> "arr", v |-> s]
JObj(f) == [t |-> "obj", v |-> f]

\* bool(j)
Truthy(j) ==
    CASE j.t = "null" -> FALSE
      [] j.t = "bool" -> j.v
      [] j.t = "num" -> j.v # 0
      [] j.t = "str" -> j.v # ""
      [] j.t = "arr" -> j.v # <<>>
      [] j.t = "obj" -> DOMAIN j.v # {}

\* dict.get(k, default) on the mapping of a JSON object
Get(d, k, default) == IF k \in DOMAIN d THEN d[k] ELSE default

\* Incr assigning 1 instead of adding 1
Incr_Reset(d, k) == (k :> 1) @@ d

\* d[k] += 1 on a defaultdict(int)
Incr(d, k) == IF k \in DOMAIN d THEN [d EXCEPT ![k] = @ + 1] ELSE d @@ (k :> 1)

\* the empty dict
EmptyDict == <<>>

\* sum of the values of a dict of counts
RECURSIVE SumCounts(_)
SumCounts(d) ==
    IF DOMAIN d = {} THEN 0
    ELSE LET k == CHOOSE x \in DOMAIN d : TRUE
         IN  d[k] + SumCounts([x \in DOMAIN d \ {k} |-> d[x]])

\* ------------------------------------------------------------ input records
\* The record at zero-based position p of the source collection.  Its title
\* and record_id are unique to the position, so a record found in a report
\* identifies the position it was loaded from.
RecordAt(p) ==
    [title |-> "title" \o ToString(p), tags |-> <<>>,
     record_id |-> "id" \o ToString(p)]

\* recipe_data["records"] for a source collection of n records
SourceRecords(n) == [k \in 1..n |-> RecordAt(k - 1)]

\* --------------------------------------------- classification service replies
\* What one chat.completions.create call can do: raise a timeout, raise
\* another service error, or return a text, which json.loads accepts or not.
GoodRecipe ==
    JObj([is_recipe |-> JBool(TRUE), content_summary |-> JStr("summary"),
          title_needs_improvement |-> JBool(FALSE),
          proposed_title |-> JStr("same"), quality_score |-> JNum(4),
          primary_category |-> JStr("Beef"), cuisine_type |-> JStr("Mexican"),
          dietary_tags |-> JArr(<<JStr("Keto")>>), usage_tags |-> JArr(<<>>),
          confidence |-> JNum(4), reasoning |-> JStr("r")])

NonRecipe ==
    JObj([is_recipe |-> JBool(FALSE), content_summary |-> JStr("summary"),
          title_needs_improvement |-> JBool(TRUE),
          proposed_title |-> JStr("better"), quality_score |-> JNum(1),
          primary_category |-> JStr("Not a Recipe"), cuisine_type |-> JNull,
          dietary_tags |-> JArr(<<>>), usage_tags |-> JArr(<<>>),
          confidence |-> JNum(5), reasoning |-> JStr("r")])

\* an object without the keys content review requires
PartialObject == JObj([primary_category |-> JStr("Beef")])

\* an object whose quality_score is not a number
BadScore ==
    JObj([is_recipe |-> JBool(TRUE), content_summary |-> JStr("summary"),
          title_needs_improvement |-> JBool(FALSE),
          proposed_title |-> JStr("same"), quality_score |-> JStr("high"),
          primary_category |-> JStr("Beef")])

EmptyObject == JObj(EmptyDict)

\* a recipe the service could not place: category and cuisine are empty texts
EmptyCategory ==
    JObj([GoodRecipe.v EXCEPT !.primary_category = JStr(""),
                              !.cuisine_type = JStr("")])

\* valid JSON that is not an object
TruthyList == JArr(<<JNum(1)>>)

Reply(kind, val) == [kind |-> kind, val |-> val]

Replies ==
    {Reply("timeout", JNull), Reply("error", JNull), Reply("text", JNull)}
    \cup {Reply("json", j) :
            j \in {GoodRecipe, NonRecipe, PartialObject, BadScore, EmptyObject,
                   EmptyCategory, TruthyList, JNull}}

\* ------------------------------------------------------ Categorization Worker
\* the keys content review requires of a reply (430-437) and those a parsed
\* object lacks (438-440); a lack is logged, nothing else
RequiredFields ==
    {"is_recipe", "content_summary", "title_needs_improvement",
     "proposed_title", "quality_score", "primary_category"}
MissingFields(j) == RequiredFields \ DOMAIN j.v

\* _analyze_single_recipe without its except clauses: a timeout, a service
\* error or a JSONDecodeError leaves the function as an exception
_analyze_single_recipe_NoCatch(reply, include_content_review) ==
    [raised |-> reply.kind # "json",
     value |-> IF reply.kind = "json" THEN reply.val ELSE JNull]

\* _analyze_single_recipe: the parsed reply, or None (JNull) when the call
\* raised (except Exception) or the text was not JSON (except
\* json.JSONDecodeError).  Missing required fields are only logged.
\* raised: an exception leaves the function.
_analyze_single_recipe(reply, include_content_review) ==
    [raised |-> FALSE,
     value |-> IF reply.kind = "json" THEN reply.val ELSE JNull]

\* ---------------------------------------------------------- Result Aggregator
\* the report categorize_recipes_llm starts from (lines 172-194)
NewResults(total_recipes) ==
    [total_analyzed |-> 0,
     total_attempted |-> total_recipes,
     categorizations |-> <<>>,
     category_distribution |-> EmptyDict,
     cuisine_distribution |-> EmptyDict,
     dietary_tags_distribution |-> EmptyDict,
     usage_tags_distribution |-> EmptyDict,
     failed_analyses |-> <<>>,
     content_quality_stats |->
        [non_recipes |-> 0, titles_needing_improvement |-> 0,
         average_quality_score |-> [num |-> 0, den |-> 1],
         quality_distribution |-> EmptyDict]]

\* categorization[...] = ... for the four stamped keys
Stamp(d, record, recipe_idx) ==
    [k \in DOMAIN d \cup {"original_title", "existing_tags", "record_id",
                          "recipe_index"} |->
        CASE k = "original_title" -> JStr(record.title)
          [] k = "existing_tags" -> JArr(record.tags)
          [] k = "record_id" -> JStr(record.record_id)
          [] k = "recipe_index" -> JNum(recipe_idx)
          [] OTHER -> d[k]]

\* usable as a dict key
Hashable(j) == j.t \notin {"arr", "obj"}

\* `for tag in j` works
Iterable(j) == j.t \in {"arr", "str", "obj"}

\* the items `for tag in j` yields (strings and objects: the empty ones only)
IterItems(j) ==
    CASE j.t = "arr" -> j.v
      [] j.t = "str" /\ j.v = "" -> <<>>
      [] j.t = "obj" /\ DOMAIN j.v = {} -> <<>>

\* `j > 0` is defined (bool is an int in Python)
Ordered(j) == j.t \in {"num", "bool"}
NumVal(j) == IF j.t = "bool" THEN (IF j.v THEN 1 ELSE 0) ELSE j.v

\* one statement of a handler: it raises, or it updates the report
Stmt(s, ok, upd) ==
    IF s.raised THEN s
    ELSE IF ~ok THEN [s EXCEPT !.raised = TRUE]
    ELSE [s EXCEPT !.results = upd]

\* for tag in tags: dist[tag] += 1
RECURSIVE CountTags(_, _, _)
CountTags(s, field, tags) ==
    IF tags = <<>> \/ s.raised THEN s
    ELSE CountTags(
            Stmt(s, Hashable(Head(tags)),
                 [s.results EXCEPT ![field] = Incr(@, Head(tags))]),
            field, Tail(tags))

\* TagLoop counting the tags into the category distribution
TagLoop_WrongField(s, field, j) ==
    IF s.raised THEN s
    ELSE IF ~Iterable(j) THEN [s EXCEPT !.raised = TRUE]
    ELSE CountTags(s, "category_distribution", IterItems(j))

\* for tag in categorization.get(field, []): ... (366-369)
TagLoop(s, field, j) ==
    IF s.raised THEN s
    ELSE IF ~Iterable(j) THEN [s EXCEPT !.raised = TRUE]
    ELSE CountTags(s, field, IterItems(j))

\* the success branch of _analyze_and_store_recipe (lines 351-381)
StoreCategorization(results, record, recipe_idx, include_content_review, cat) ==
    LET s0 == [raised |-> FALSE, results |-> results]
        \* 351-354: item assignment needs a dict
        d == Stamp(cat.v, record, recipe_idx)
        s1 == Stmt(s0, cat.t = "obj",
                   [results EXCEPT
                      !.categorizations = Append(@, d),
                      !.total_analyzed = @ + 1])
        primary == Get(d, "primary_category", JNull)
        s2 == IF Truthy(primary)
              THEN Stmt(s1, Hashable(primary),
                        [s1.results EXCEPT
                           !.category_distribution = Incr(@, primary)])
              ELSE s1
        cuisine == Get(d, "cuisine_type", JNull)
        s3 == IF Truthy(cuisine)
              THEN Stmt(s2, Hashable(cuisine),
                        [s2.results EXCEPT
                           !.cuisine_distribution = Incr(@, cuisine)])
              ELSE s2
        s4 == TagLoop(s3, "dietary_tags_distribution",
                      Get(d, "dietary_tags", JArr(<<>>)))
        s5 == TagLoop(s4, "usage_tags_distribution",
                      Get(d, "usage_tags", JArr(<<>>)))
        s6 == IF ~Truthy(Get(d, "is_recipe", JBool(TRUE)))
              THEN Stmt(s5, TRUE,
                        [s5.results EXCEPT
                           !.content_quality_stats.non_recipes = @ + 1])
              ELSE s5
        s7 == IF Truthy(Get(d, "title_needs_improvement", JBool(FALSE)))
              THEN Stmt(s6, TRUE,
                        [s6.results EXCEPT
                           !.content_quality_stats.titles_needing_improvement
                              = @ + 1])
              ELSE s6
        quality_score == Get(d, "quality_score", JNum(0))
        s8 == IF ~Ordered(quality_score) THEN Stmt(s7, FALSE, s7.results)
              ELSE IF NumVal(quality_score) > 0
              THEN Stmt(s7, TRUE,
                        [s7.results EXCEPT
                           !.content_quality_stats.quality_distribution
                              = Incr(@, JNum(NumVal(quality_score)))])
              ELSE s7
    IN  IF s1.raised THEN s1
        ELSE IF include_content_review THEN s8 ELSE s5

\* _analyze_and_store_recipe without its else: the failure entry is appended
\* for every record
_analyze_and_store_recipe_NoElse(results, record, recipe_idx, include_content_review, categorization) ==
    LET s == IF Truthy(categorization)
             THEN StoreCategorization(results, record, recipe_idx,
                                      include_content_review, categorization)
             ELSE [raised |-> FALSE, results |-> results]
    IN  [s EXCEPT
           !.results.failed_analyses =
              Append(@, [recipe_index |-> recipe_idx,
                         title |-> record.title,
                         existing_tags |-> record.tags])]
\* _analyze_and_store_recipe, given the worker's return value
_analyze_and_store_recipe(results, record, recipe_idx, include_content_review, categorization) ==
    IF Truthy(categorization)
    THEN StoreCategorization(results, record, recipe_idx,
                             include_content_review, categorization)
    ELSE [raised |-> FALSE,
          results |->
            [results EXCEPT
               !.failed_analyses =
                  Append(@, [recipe_index |-> recipe_idx,
                             title |-> record.title,
                             existing_tags |-> record.tags])]]

\* _calculate_content_quality_stats
RECURSIVE QualityScores(_)
QualityScores(cats) ==
    IF cats = <<>> THEN [raised |-> FALSE, scores |-> <<>>]
    ELSE LET q == Get(Head(cats), "quality_score", JNum(0))
             rest == QualityScores(Tail(cats))
         IN  IF ~Ordered(q) THEN [raised |-> TRUE, scores |-> <<>>]
             ELSE IF rest.raised THEN rest
             ELSE IF NumVal(q) > 0
             THEN [rest EXCEPT !.scores = <<NumVal(q)>> \o @]
             ELSE rest

RECURSIVE SumSeq(_)
SumSeq(s) == IF s = <<>> THEN 0 ELSE Head(s) + SumSeq(Tail(s))

\* _calculate_content_quality_stats dividing by the number of all
\* categorizations instead of the number of positive scores
_calculate_content_quality_stats_AllEntries(results) ==
    IF results.categorizations = <<>>
    THEN [raised |-> FALSE, results |-> results]
    ELSE LET q == QualityScores(results.categorizations)
         IN  IF q.raised THEN [raised |-> TRUE, results |-> results]
             ELSE IF q.scores # <<>>
             THEN [raised |-> FALSE,
                   results |->
                     [results EXCEPT
                        !.content_quality_stats.average_quality_score =
                           [num |-> SumSeq(q.scores),
                            den |-> Len(results.categorizations)]]]
             ELSE [raised |-> FALSE, results |-> results]

\* lines 567-581: the mean of the positive scores, as the fraction num/den
_calculate_content_quality_stats(results) ==
    IF results.categorizations = <<>>
    THEN [raised |-> FALSE, results |-> results]
    ELSE LET q == QualityScores(results.categorizations)
         IN  IF q.raised THEN [raised |-> TRUE, results |-> results]
             ELSE IF q.scores # <<>>
             THEN [raised |-> FALSE,
                   results |->
                     [results EXCEPT
                        !.content_quality_stats.average_quality_score =
                           [num |-> SumSeq(q.scores), den |-> Len(q.scores)]]]
             ELSE [raised |-> FALSE, results |-> results]

\* ------------------------------------------------------ Range/Sample Resolver
\* categorize_recipes_llm, lines 154-168: the working set
SelectRecords(all_records, sample_size, start_index, end_index) ==
    IF ~IsNone(start_index) \/ ~IsNone(end_index)
    THEN LET start_idx == OrElse(start_index, 0)
             end_idx == OrElse(end_index, Len(all_records))
         IN  IF ~IsNone(end_index)
             THEN PySlice(all_records, start_idx, end_idx + 1)
             ELSE PySlice(all_records, start_idx, Len(all_records))
    ELSE IF TruthyInt(sample_size)
    THEN PySlice(all_records, 0, Val(sample_size))
    ELSE all_records

\* the arguments of one categorize_recipes_llm call
CallArgs(sample_size, start_index, end_index, batch_size, batch_delay, include_content_review) ==
    [sample_size |-> sample_size, start_index |-> start_index,
     end_index |-> end_index, batch_size |-> batch_size,
     batch_delay |-> batch_delay,
     include_content_review |-> include_content_review]

\* argument values a caller may pass
SampleSizes == Opt(-1..(MaxN + 1))
Indices == Opt(-1..MaxN)
BatchSizes == Opt(-1..(MaxN + 1))
BatchDelays == {0, 1}

\* -------------------------------------------------------- the analyze command
\* range_spec.split("-") followed by int() on each part: a part is Some(n)
\* when int() accepts it and None when it raises ValueError.
RangeParses(parts) == Len(parts) = 2 /\ ~IsNone(parts[1]) /\ ~IsNone(parts[2])

\* --range values: absent, or the parts of the given text
RangeSpecs ==
    {None, <<None>>, <<Some(0), Some(1)>>, <<Some(1), Some(MaxN)>>,
     <<Some(0), Some(1), Some(2)>>}

\* settings a profile (or the flag defaults) may carry for the selection
ProfileSelections ==
    [sample_size : Opt({2}), start_index : Opt({1}), end_index : Opt({1})]

\* --sample, --start-index, --end-index values
CliSamples == Opt({0, 2})
CliStarts == Opt({0, 1})
CliEnds == Opt({0, 2})

\* config.py: the settings validate_required looks at, each set or empty
Configs ==
    [notion_token : {"", "token"}, azure_openai_endpoint : {"", "endpoint"},
     azure_openai_key : {"", "key"}]
FullConfig ==
    [notion_token |-> "token", azure_openai_endpoint |-> "endpoint",
     azure_openai_key |-> "key"]

\* validate_required lines 63-70: the names of the empty settings
MissingSettings(cfg) == {k \in DOMAIN cfg : cfg[k] = ""}

\* validate_required that never raises
validate_required_Skip(cfg) == [raised |-> FALSE]

\* Config.validate_required: raises ValueError when a setting is missing
validate_required(cfg) == [raised |-> MissingSettings(cfg) # {}]

\* ResolveSettings without the final validation that drops the range when a
\* sample size is in effect
ResolveSettings_KeepRange(profile, sample, start_index, end_index, range_spec) ==
    LET s4 == IF TruthyInt(sample)
              THEN [sample_size |-> sample, start_index |-> None,
                    end_index |-> None]
              ELSE profile
        ranged == ~IsNone(range_spec)
        start5 == IF ranged THEN range_spec[1] ELSE start_index
        end5 == IF ranged THEN range_spec[2] ELSE end_index
        s6 == [s4 EXCEPT
                 !.start_index = IF ~IsNone(start5) THEN start5 ELSE @,
                 !.end_index = IF ~IsNone(end5) THEN end5 ELSE @]
    IN  IF ranged /\ ~RangeParses(range_spec)
        THEN [ok |-> FALSE, settings |-> profile]
        ELSE [ok |-> TRUE, settings |-> s6]

\* analyze, steps 4 to 7 and the validation of the combination (lines 97-143):
\* the selection settings passed on, or "invalid" for an unparseable range
ResolveSettings(profile, sample, start_index, end_index, range_spec) ==
    LET \* step 4
        s4 == IF TruthyInt(sample)
              THEN [sample_size |-> sample, start_index |-> None,
                    end_index |-> None]
              ELSE profile
        \* step 5
        ranged == ~IsNone(range_spec)
        start5 == IF ranged THEN range_spec[1] ELSE start_index
        end5 == IF ranged THEN range_spec[2] ELSE end_index
        \* step 6
        s6 == [s4 EXCEPT
                 !.start_index = IF ~IsNone(start5) THEN start5 ELSE @,
                 !.end_index = IF ~IsNone(end5) THEN end5 ELSE @]
        \* validation
        s7 == IF TruthyInt(s6.sample_size)
                 /\ (~IsNone(s6.start_index) \/ ~IsNone(s6.end_index))
              THEN [s6 EXCEPT !.start_index = None, !.end_index = None]
              ELSE s6
    IN  IF ranged /\ ~RangeParses(range_spec)
        THEN [ok |-> FALSE, settings |-> profile]
        ELSE [ok |-> TRUE, settings |-> s7]

\* ---------------------------------------------------------------------- state
VARIABLES
    pc,            \* where the run stands
    caller,        \* "analyze" (the command) or "api" (a direct call)
    source_n,      \* number of records of the source collection
    cli,           \* the command's selection options, until dispatch
    args,          \* the arguments of categorize_recipes_llm still to be read
    records,       \* the working set (records after slicing)
    start_offset,  \* start_index or 0, as passed to the scheduler
    results,       \* categorization_results
    batch_num,     \* _process_in_batches: loop counter
    i,             \* index of the next record of the pass or batch
    trace,         \* worker calls and sleeps, in order
    last,          \* kind of the latest service reply
    last_val,      \* what the latest reply decoded to (None if it did not)
    cmd_result,    \* how the analyze command ended
    rpc,           \* where the review round trip stands
    report,        \* the categorizations of the analysis file under review
    focus_on_issues, \* export_to_csv: the issues-only filter
    table,         \* the rows of the CSV file, as csv.DictReader yields them
    edits,         \* cells the reviewer changed so far
    row_i,         \* import_corrections: rows processed so far
    corrections,   \* import_corrections: corrections
    issues_found,  \* import_corrections: issues_found
    artifact,      \* corrections.json, or None when it was not written
    cpc,           \* where the comparison of the two schedulers stands
    job,           \* the arguments both schedulers are called with
    outcomes,      \* the service reply of each record, by position
    single_run,    \* _process_single_batch: results and loop index
    batch_run,     \* _process_in_batches: results, loop indices and sleeps
    ppc,           \* where run_pipeline stands
    steps,         \* run_pipeline: the requested step names
    step_i,        \* run_pipeline: index of the next step of the loop
    executed,      \* the step functions called so far, in order
    console,       \* what run_pipeline printed, in order
    step_log       \* how the step function of each step run so far ended

run_vars == <<pc, caller, source_n, cli, args, records, start_offset, results,
              batch_num, i, trace, last, last_val, cmd_result>>
review_vars == <<rpc, report, focus_on_issues, table, edits, row_i,
                 corrections, issues_found, artifact>>
compare_vars == <<cpc, job, outcomes, single_run, batch_run>>
pipeline_vars == <<ppc, steps, step_i, executed, console, step_log>>
vars == <<run_vars, review_vars, compare_vars, pipeline_vars>>

\* no review command is running
ReviewIdle ==
    /\ rpc = "off"
    /\ report = <<>>
    /\ focus_on_issues = FALSE
    /\ table = <<>>
    /\ edits = 0
    /\ row_i = 0
    /\ corrections = <<>>
    /\ issues_found = <<>>
    /\ artifact = None

\* no comparison of the schedulers is running
CompareIdle ==
    /\ cpc = "off"
    /\ job = <<>>
    /\ outcomes = <<>>
    /\ single_run = <<>>
    /\ batch_run = <<>>

\* no pipeline is running
PipelineIdle ==
    /\ ppc = "off"
    /\ steps = <<>>
    /\ step_i = 0
    /\ executed = <<>>
    /\ console = <<>>
    /\ step_log = <<>>

NoCli ==
    [profile |-> [sample_size |-> None, start_index |-> None,
                  end_index |-> None],
     sample |-> None, start_index |-> None, end_index |-> None,
     range_spec |-> None, config |-> FullConfig]

NoArgs == CallArgs(None, None, None, None, 0, TRUE)

Init ==
    /\ pc = "idle"
    /\ caller = "none"
    /\ source_n \in 0..MaxN
    /\ cli = NoCli
    /\ args = NoArgs
    /\ records = <<>>
    /\ start_offset = 0
    /\ results = NewResults(0)
    /\ batch_num = 0
    /\ i = 0
    /\ trace = <<>>
    /\ last = "none"
    /\ last_val = JNull
    /\ cmd_result = "none"
    /\ ReviewIdle
    /\ CompareIdle
    /\ PipelineIdle

\* categorize_recipes_llm up to the construction of the report (154-194)
EnterRun(a) ==
    /\ args' = a
    /\ records' = SelectRecords(SourceRecords(source_n), a.sample_size,
                                a.start_index, a.end_index)
    /\ results' = NewResults(Len(records'))
    /\ start_offset' = OrElse(a.start_index, 0)
    /\ pc' = "selected"
    /\ UNCHANGED <<source_n, batch_num, i, trace, last, last_val, cmd_result>>

\* a direct call of RecipeAnalyzer.categorize_recipes_llm
DirectCall ==
    /\ UNCHANGED <<review_vars, compare_vars, pipeline_vars>>
    /\ pc = "idle"
    /\ caller' = "api"
    /\ cli' = cli
    /\ \E ss \in SampleSizes, si \in Indices, ei \in Indices,
          bs \in BatchSizes, bd \in BatchDelays, icr \in BOOLEAN :
          EnterRun(CallArgs(ss, si, ei, bs, bd, icr))

\* the analyze command up to its call of categorize_recipes_llm (75-187)
analyze ==
    /\ UNCHANGED <<review_vars, compare_vars, pipeline_vars>>
    /\ pc = "idle"
    /\ caller' = "analyze"
    /\ \E profile \in ProfileSelections, sample \in CliSamples,
          start_index \in CliStarts, end_index \in CliEnds,
          range_spec \in RangeSpecs, bs \in BatchSizes, bd \in BatchDelays,
          icr \in BOOLEAN, cfg \in Configs :
          LET r == ResolveSettings(profile, sample, start_index, end_index,
                                   range_spec)
              stop(why) ==
                  /\ pc' = "cmd_done"
                  /\ cmd_result' = why
                  /\ UNCHANGED <<source_n, args, records, start_offset,
                                 results, batch_num, i, trace, last, last_val>>
          IN  /\ cli' = [profile |-> profile, sample |-> sample,
                         start_index |-> start_index,
                         end_index |-> end_index, range_spec |-> range_spec,
                         config |-> cfg]
              /\ IF ~r.ok
                 THEN stop("invalid_range")               \* 110-114
                 ELSE IF source_n = 0
                 THEN stop("crashed")   \* display_basic_stats divides by 0
                 ELSE IF validate_required(cfg).raised
                 THEN stop("config_error")                \* 176, 190-193
                 ELSE EnterRun(CallArgs(r.settings.sample_size,
                                        r.settings.start_index,
                                        r.settings.end_index, bs, bd, icr))

\* categorize_recipes_llm, lines 221-239: one pass or batches.  The
\* selection arguments and options are not read again after this point.
Batched(batch_size, total_recipes) ==
    TruthyInt(batch_size) /\ Val(batch_size) < total_recipes

Dispatch ==
    /\ UNCHANGED <<review_vars, compare_vars, pipeline_vars>>
    /\ pc = "selected"
    /\ pc' = IF Batched(args.batch_size, Len(records))
             THEN "batch" ELSE "single"
    /\ args' = [args EXCEPT !.sample_size = None, !.start_index = None,
                            !.end_index = None]
    /\ cli' = NoCli
    /\ batch_num' = 0
    /\ i' = 0
    /\ UNCHANGED <<caller, source_n, records, start_offset, results, trace,
                   last, last_val, cmd_result>>

\* ------------------------------------------------------------ Batch Scheduler
CallEvent(recipe_idx, record, batch) ==
    [ev |-> "call", recipe_idx |-> recipe_idx, title |-> record.title,
     batch |-> batch]
SleepEvent(batch) ==
    [ev |-> "sleep", recipe_idx |-> 0, title |-> "", batch |-> batch]

\* one call of _analyze_and_store_recipe from a loop body; on an exception
\* the loop is left with the exception propagating
WorkerStep(record, recipe_idx, batch, back) ==
    \E reply \in Replies :
        LET categorization ==
                _analyze_single_recipe(reply, args.include_content_review)
            out == IF categorization.raised
                   THEN [raised |-> TRUE, results |-> results]
                   ELSE _analyze_and_store_recipe(
                            results, record, recipe_idx,
                            args.include_content_review, categorization.value)
        IN  /\ trace' = Append(trace, CallEvent(recipe_idx, record, batch))
            /\ last' = reply.kind
            /\ last_val' = categorization.value
            /\ results' = out.results
            /\ IF out.raised
               THEN pc' = "raised" /\ i' = i
               ELSE pc' = back /\ i' = i + 1

\* _process_single_batch: one iteration of the loop (321-331)
ProcessSingleRecord ==
    /\ UNCHANGED <<review_vars, compare_vars, pipeline_vars>>
    /\ pc = "single"
    /\ i < Len(records)
    /\ WorkerStep(records[i + 1], start_offset + i, 0, "single")
    /\ UNCHANGED <<caller, source_n, cli, args, records, start_offset,
                   batch_num, cmd_result>>

\* NumBatches with floor instead of ceiling division
NumBatches_Floor(n, batch_size) == FloorDiv(n, batch_size)

\* _process_in_batches (259-267)
NumBatches(n, batch_size) == FloorDiv(n + batch_size - 1, batch_size)

\* BatchStartIdx stepping one record short, so that a batch starts on the
\* last record of the batch before it
BatchStartIdx_Overlap(b, batch_size) == b * (batch_size - 1)

\* start_idx of batch b (265)
BatchStartIdx(b, batch_size) == b * batch_size
BatchEndIdx(b, batch_size, n) == Min(BatchStartIdx(b, batch_size) + batch_size, n)
BatchRecords(recs, b, batch_size) ==
    PySlice(recs, BatchStartIdx(b, batch_size),
            BatchEndIdx(b, batch_size, Len(recs)))

\* _process_in_batches: one iteration of the inner loop (282-292)
ProcessBatchRecord ==
    /\ UNCHANGED <<review_vars, compare_vars, pipeline_vars>>
    /\ pc = "batch"
    /\ batch_num < NumBatches(Len(records), Val(args.batch_size))
    /\ LET bs == Val(args.batch_size)
           batch_records == BatchRecords(records, batch_num, bs)
           actual_start_idx == start_offset + BatchStartIdx(batch_num, bs)
       IN  /\ i < Len(batch_records)
           /\ WorkerStep(batch_records[i + 1], actual_start_idx + i,
                         batch_num, "batch")
    /\ UNCHANGED <<caller, source_n, cli, args, records, start_offset,
                   batch_num, cmd_result>>

\* SleepsAfter without the test for the last batch
SleepsAfter_Every(batch_delay, b, num_batches) == batch_delay > 0

\* _process_in_batches: the end of one batch (294-303), with its sleep
SleepsAfter(batch_delay, b, num_batches) ==
    batch_delay > 0 /\ b < num_batches - 1

CompleteBatch ==
    /\ UNCHANGED <<review_vars, compare_vars, pipeline_vars>>
    /\ pc = "batch"
    /\ LET bs == Val(args.batch_size)
           num_batches == NumBatches(Len(records), bs)
       IN  /\ batch_num < num_batches
           /\ i >= Len(BatchRecords(records, batch_num, bs))
           /\ trace' = IF SleepsAfter(args.batch_delay, batch_num, num_batches)
                       THEN Append(trace, SleepEvent(batch_num))
                       ELSE trace
    /\ batch_num' = batch_num + 1
    /\ i' = 0
    /\ UNCHANGED <<pc, caller, source_n, cli, args, records, start_offset,
                   results, last, last_val, cmd_result>>

\* the loops are over: lines 241-244
LoopsDone ==
    \/ pc = "single" /\ i >= Len(records)
    \/ pc = "batch"
       /\ batch_num >= NumBatches(Len(records), Val(args.batch_size))

FinishRun ==
    /\ UNCHANGED <<review_vars, compare_vars, pipeline_vars>>
    /\ LoopsDone
    /\ LET out == _calculate_content_quality_stats(results)
       IN  /\ results' = out.results
           /\ pc' = IF out.raised THEN "raised" ELSE "returned"
    /\ UNCHANGED <<caller, source_n, cli, args, records, start_offset,
                   batch_num, i, trace, last, last_val, cmd_result>>

\* analyze after a returned report: display and save (188, 198-214)
SaveReport ==
    /\ UNCHANGED <<review_vars, compare_vars, pipeline_vars>>
    /\ pc = "returned"
    /\ caller = "analyze"
    /\ pc' = "cmd_done"
    /\ cmd_result' = "saved"
    /\ UNCHANGED <<caller, source_n, cli, args, records, start_offset,
                   results, batch_num, i, trace, last, last_val>>

\* analyze when the call raised: except Exception, print, return (194-196)
CatchError ==
    /\ UNCHANGED <<review_vars, compare_vars, pipeline_vars>>
    /\ pc = "raised"
    /\ caller = "analyze"
    /\ pc' = "cmd_done"
    /\ cmd_result' = "llm_error"
    /\ UNCHANGED <<caller, source_n, cli, args, records, start_offset,
                   results, batch_num, i, trace, last, last_val>>

Next ==
    \/ DirectCall
    \/ analyze
    \/ Dispatch
    \/ ProcessSingleRecord
    \/ ProcessBatchRecord
    \/ CompleteBatch
    \/ FinishRun
    \/ SaveReport
    \/ CatchError

Spec == Init /\ [][Next]_vars

\* =========================================================== Review Reconciler
\* -------------------------------------------------------------- Python strings
IsSpace(c) == c \in {" ", "\t", "\n"}

\* str.strip()
RECURSIVE LStrip(_)
LStrip(s) == IF s # "" /\ IsSpace(Head(s)) THEN LStrip(Tail(s)) ELSE s
RECURSIVE RStrip(_)
RStrip(s) ==
    IF s # "" /\ IsSpace(SubSeq(s, Len(s), Len(s)))
    THEN RStrip(SubSeq(s, 1, Len(s) - 1))
    ELSE s
Strip(s) == RStrip(LStrip(s))

\* str.lower()
UpperCase == "ABCDEFGHIJKLMNOPQRSTUVWXYZ"
LowerCase == "abcdefghijklmnopqrstuvwxyz"
LowerChar(c) ==
    IF \E k \in 1..Len(UpperCase) : SubSeq(UpperCase, k, k) = c
    THEN LET k == CHOOSE n \in 1..Len(UpperCase) : SubSeq(UpperCase, n, n) = c
         IN  SubSeq(LowerCase, k, k)
    ELSE c
RECURSIVE Lower(_)
Lower(s) == IF s = "" THEN "" ELSE LowerChar(Head(s)) \o Lower(Tail(s))

\* int(s) on a stripped text: an optional sign and decimal digits, else
\* ValueError
Digits == "0123456789"
IsDigit(c) == \E k \in 1..Len(Digits) : SubSeq(Digits, k, k) = c
DigitVal(c) == (CHOOSE k \in 1..Len(Digits) : SubSeq(Digits, k, k) = c) - 1
RECURSIVE AllDigits(_)
AllDigits(s) == s = "" \/ (IsDigit(Head(s)) /\ AllDigits(Tail(s)))
RECURSIVE DigitsValue(_, _)
DigitsValue(s, acc) ==
    IF s = "" THEN acc
    ELSE DigitsValue(Tail(s), 10 * acc + DigitVal(Head(s)))
Signed(s) == s # "" /\ Head(s) \in {"+", "-"}
IntParses(s) ==
    LET body == IF Signed(s) THEN Tail(s) ELSE s
    IN  body # "" /\ AllDigits(body)
PyInt(s) ==
    LET body == IF Signed(s) THEN Tail(s) ELSE s
    IN  IF Signed(s) /\ Head(s) = "-" THEN 0 - DigitsValue(body, 0)
        ELSE DigitsValue(body, 0)

\* the text csv.writer puts into a cell: '' for None, str(value) otherwise
CsvText(j) ==
    CASE j.t = "null" -> ""
      [] j.t = "bool" -> IF j.v THEN "True" ELSE "False"
      [] j.t = "num" -> ToString(j.v)
      [] j.t = "str" -> j.v

\* sep.join(items) for a list of strings
RECURSIVE Join(_, _)
Join(sep, items) ==
    IF items = <<>> THEN ""
    ELSE IF Len(items) = 1 THEN items[1].v
    ELSE items[1].v \o sep \o Join(sep, Tail(items))

\* ------------------------------------------------------------- export_to_csv
\* fieldnames (111-133)
DataFieldNames ==
    {"recipe_index", "record_id", "original_title", "proposed_title",
     "title_needs_improvement", "is_recipe", "primary_category",
     "cuisine_type", "dietary_tags", "usage_tags", "quality_score",
     "content_summary", "confidence", "reasoning", "existing_tags"}
ReviewFieldNames ==
    {"corrected_title", "corrected_category", "corrected_is_recipe",
     "review_notes", "approved"}
FieldNames == DataFieldNames \cup ReviewFieldNames

\* the issues-only filter without its title_needs_improvement test
HasIssues_NoTitle(cat) ==
    \/ ~Truthy(Get(cat, "is_recipe", JBool(TRUE)))
    \/ NumVal(Get(cat, "quality_score", JNum(5))) < 3

\* the condition of the issues-only filter (95-97)
HasIssues(cat) ==
    \/ ~Truthy(Get(cat, "is_recipe", JBool(TRUE)))
    \/ Truthy(Get(cat, "title_needs_improvement", JBool(FALSE)))
    \/ NumVal(Get(cat, "quality_score", JNum(5))) < 3

\* the review cells pre-filled with the proposed title
EmptyReviewFields_Prefilled(cat) ==
    [f \in ReviewFieldNames |->
        IF f = "corrected_title"
        THEN CsvText(Get(cat, "proposed_title", JStr("")))
        ELSE ""]

\* the review cells of an exported row (159-163)
EmptyReviewFields(cat) == [f \in ReviewFieldNames |-> ""]

\* the row written for one categorization (140-165), as csv.DictReader
\* reads it back: every cell a text
ExportRow(cat) ==
    LET data ==
          [recipe_index |-> CsvText(Get(cat, "recipe_index", JStr(""))),
           record_id |-> CsvText(Get(cat, "record_id", JStr(""))),
           original_title |-> CsvText(Get(cat, "original_title", JStr(""))),
           proposed_title |-> CsvText(Get(cat, "proposed_title", JStr(""))),
           title_needs_improvement |->
              CsvText(Get(cat, "title_needs_improvement", JBool(FALSE))),
           is_recipe |-> CsvText(Get(cat, "is_recipe", JBool(TRUE))),
           primary_category |->
              CsvText(Get(cat, "primary_category", JStr(""))),
           cuisine_type |-> CsvText(Get(cat, "cuisine_type", JStr(""))),
           dietary_tags |->
              Join("; ", Get(cat, "dietary_tags", JArr(<<>>)).v),
           usage_tags |-> Join("; ", Get(cat, "usage_tags", JArr(<<>>)).v),
           quality_score |-> CsvText(Get(cat, "quality_score", JStr(""))),
           content_summary |-> CsvText(Get(cat, "content_summary", JStr(""))),
           confidence |-> CsvText(Get(cat, "confidence", JStr(""))),
           reasoning |-> CsvText(Get(cat, "reasoning", JStr(""))),
           existing_tags |->
              Join("; ", Get(cat, "existing_tags", JArr(<<>>)).v)]
    IN  [f \in FieldNames |->
            Some(IF f \in ReviewFieldNames THEN EmptyReviewFields(cat)[f]
                 ELSE data[f])]

\* the rows of the exported file (90-101, 139-165)
ExportRows(categorizations, focus) ==
    LET kept == IF focus THEN SelectSeq(categorizations, HasIssues)
                ELSE categorizations
    IN  [k \in 1..Len(kept) |-> ExportRow(kept[k])]

\* -------------------------------------------------------- import_corrections
\* row.get(key, ""): the text of a cell, None for a cell the row is too short
\* for (csv.DictReader's restval)
Cell(row, key) == IF key \in DOMAIN row THEN row[key] ELSE Some("")

\* RowSkipped that lets every row through
RowSkipped_Never(recipe_index) == FALSE

\* `if not recipe_index: return None` (714-715)
RowSkipped(recipe_index) == recipe_index = ""

\* TitleChanged without the comparison with the original title
TitleChanged_Always(corrected_title, original_title) == corrected_title # ""

\* the test for a title correction (721); original_title is a cell
TitleChanged(corrected_title, original_title) ==
    corrected_title # "" /\ Some(corrected_title) # original_title

\* CategoryChanged without the comparison with the stored category
CategoryChanged_Always(corrected_category, primary_category) ==
    corrected_category # ""
\* the test for a category correction (726-728)
CategoryChanged(corrected_category, primary_category) ==
    corrected_category # "" /\ Some(corrected_category) # primary_category

\* str(cell): the text itself, "None" for None
StrOfCell(cell) == IF IsNone(cell) THEN "None" ELSE Val(cell)

\* IsRecipeChanged comparing with the stored text as it is written
IsRecipeChanged_CaseSensitive(corrected_is_recipe, is_recipe) ==
    /\ corrected_is_recipe \in {"true", "false"}
    /\ corrected_is_recipe # StrOfCell(is_recipe)

\* the test for an is_recipe correction (733-735); is_recipe is a cell
IsRecipeChanged(corrected_is_recipe, is_recipe) ==
    /\ corrected_is_recipe \in {"true", "false"}
    /\ corrected_is_recipe # Lower(StrOfCell(is_recipe))

\* enumerate(reader, start=1)
RowNumber_FromOne(k) == k

\* enumerate(reader, start=2): the number of the k-th data row (188-190)
RowNumber(k) == k + 1

\* _process_csv_row: the correction returned (None for none) and the issue
\* appended to issues (None for none)
_process_csv_row(row, row_num) ==
    LET nothing == [correction |-> None, issue |-> None]
        raise(msg) ==
            [correction |-> None,
             issue |-> Some([row |-> row_num,
                             message |-> "Error processing row: " \o msg])]
        NoStrip == "'NoneType' object has no attribute 'strip'"
        ri == Cell(row, "recipe_index")
        ct == Cell(row, "corrected_title")
        cc == Cell(row, "corrected_category")
        cir == Cell(row, "corrected_is_recipe")
        rn == Cell(row, "review_notes")
    IN  IF IsNone(ri) THEN raise(NoStrip)
        ELSE IF RowSkipped(Strip(Val(ri))) THEN nothing
        ELSE IF IsNone(ct) \/ IsNone(cc) \/ IsNone(cir) \/ IsNone(rn)
        THEN raise(NoStrip)
        ELSE
        LET recipe_index == Strip(Val(ri))
            corrected_title == Strip(Val(ct))
            corrected_category == Strip(Val(cc))
            corrected_is_recipe == Lower(Strip(Val(cir)))
            review_notes == Strip(Val(rn))
            c ==
              (IF TitleChanged(corrected_title, Cell(row, "original_title"))
               THEN "title" :> JStr(corrected_title) ELSE EmptyDict)
              @@ (IF CategoryChanged(corrected_category,
                                     Cell(row, "primary_category"))
                  THEN "primary_category" :> JStr(corrected_category)
                  ELSE EmptyDict)
              @@ (IF IsRecipeChanged(corrected_is_recipe,
                                     Cell(row, "is_recipe"))
                  THEN "is_recipe" :> JBool(corrected_is_recipe = "true")
                  ELSE EmptyDict)
              @@ (IF review_notes # ""
                  THEN "review_notes" :> JStr(review_notes) ELSE EmptyDict)
        IN  IF DOMAIN c = {} THEN nothing
            ELSE IF ~IntParses(recipe_index)
            THEN raise("invalid literal for int() with base 10: '"
                       \o recipe_index \o "'")
            ELSE [correction |->
                    Some([recipe_index |-> PyInt(recipe_index),
                          record_id |-> Cell(row, "record_id"),
                          original_title |-> Cell(row, "original_title"),
                          corrections |-> c]),
                  issue |-> None]

\* ------------------------------------------------------- the review round trip
\* results the service may have produced besides GoodRecipe, NonRecipe and
\* PartialObject: one flagged for its title only, one of low quality only
NeedsTitle ==
    JObj([GoodRecipe.v EXCEPT !.title_needs_improvement = JBool(TRUE),
                              !.proposed_title = JStr("better")])
LowQuality == JObj([GoodRecipe.v EXCEPT !.quality_score = JNum(2)])
ResultKinds == {GoodRecipe, NonRecipe, PartialObject, NeedsTitle, LowQuality}

\* llm_categorization.categorizations of an analysis file: the results of
\* the first n records as _analyze_and_store_recipe stamps them
Reports ==
    UNION {{[k \in 1..n |-> Stamp(f[k].v, RecordAt(k - 1), k - 1)] :
              f \in [1..n -> ResultKinds]} : n \in 0..MaxRows}

\* what a reviewer may type into a cell of a row
EditValues(row, f) ==
    CASE f = "corrected_title" ->
            {"Pie", " Pie ", " ", Val(row.original_title),
             Val(row.original_title) \o " "}
      [] f = "corrected_category" ->
            {"Pork", " ", Val(row.primary_category),
             Val(row.primary_category) \o " "}
      [] f = "corrected_is_recipe" -> {"true", "FALSE", " True ", "yes"}
      [] f = "review_notes" -> {"ok"}
      [] f = "recipe_index" -> {"", "abc"}
EditableFields ==
    {"corrected_title", "corrected_category", "corrected_is_recipe",
     "review_notes", "recipe_index"}

\* a review of one analysis file starts; no analysis is running
ReviewInit ==
    /\ pc = "idle"
    /\ caller = "none"
    /\ source_n = 0
    /\ cli = NoCli
    /\ args = NoArgs
    /\ records = <<>>
    /\ start_offset = 0
    /\ results = NewResults(0)
    /\ batch_num = 0
    /\ i = 0
    /\ trace = <<>>
    /\ last = "none"
    /\ last_val = JNull
    /\ cmd_result = "none"
    /\ rpc = "start"
    /\ report \in Reports
    /\ focus_on_issues \in BOOLEAN
    /\ table = <<>>
    /\ edits = 0
    /\ row_i = 0
    /\ corrections = <<>>
    /\ issues_found = <<>>
    /\ artifact = None
    /\ CompareIdle
    /\ PipelineIdle

\* RecipeReviewer.export_to_csv: no file for an empty report (84-88), else
\* the header and one row per kept categorization
export_to_csv ==
    /\ rpc = "start"
    /\ IF report = <<>>
       THEN rpc' = "no_file" /\ table' = <<>>
       ELSE rpc' = "exported" /\ table' = ExportRows(report, focus_on_issues)
    /\ UNCHANGED <<report, focus_on_issues, edits, row_i, corrections,
                   issues_found, artifact>>
    /\ UNCHANGED <<run_vars, compare_vars, pipeline_vars>>

\* the reviewer changes one cell of the exported file
EditCell ==
    /\ rpc = "exported"
    /\ edits < MaxEdits
    /\ \E r \in 1..Len(table), f \in EditableFields :
          \E v \in EditValues(table[r], f) :
             /\ table' = [table EXCEPT ![r][f] = Some(v)]
             /\ table' # table
    /\ edits' = edits + 1
    /\ UNCHANGED <<rpc, report, focus_on_issues, row_i, corrections,
                   issues_found, artifact>>
    /\ UNCHANGED <<run_vars, compare_vars, pipeline_vars>>

\* the file comes back with a row cut short after its data cells: DictReader
\* fills the missing review cells with None
TruncateRow ==
    /\ rpc = "exported"
    /\ edits < MaxEdits
    /\ \E r \in 1..Len(table) :
          /\ table' = [table EXCEPT
                         ![r] = [f \in FieldNames |->
                                   IF f \in ReviewFieldNames THEN None
                                   ELSE table[r][f]]]
          /\ table' # table
    /\ edits' = edits + 1
    /\ UNCHANGED <<rpc, report, focus_on_issues, row_i, corrections,
                   issues_found, artifact>>
    /\ UNCHANGED <<run_vars, compare_vars, pipeline_vars>>

\* import_corrections: one iteration of the loop over the rows (188-193)
ImportRow ==
    /\ rpc \in {"exported", "importing"}
    /\ row_i < Len(table)
    /\ LET out == _process_csv_row(table[row_i + 1], RowNumber(row_i + 1))
       IN  /\ corrections' = IF IsNone(out.correction) THEN corrections
                             ELSE Append(corrections, Val(out.correction))
           /\ issues_found' = IF IsNone(out.issue) THEN issues_found
                              ELSE Append(issues_found, Val(out.issue))
    /\ row_i' = row_i + 1
    /\ rpc' = "importing"
    /\ UNCHANGED <<report, focus_on_issues, table, edits, artifact>>
    /\ UNCHANGED <<run_vars, compare_vars, pipeline_vars>>

\* import_corrections after the loop (195-231): corrections.json is written
\* only when there is a correction
SaveCorrections ==
    /\ rpc \in {"exported", "importing"}
    /\ row_i = Len(table)
    /\ artifact' = IF corrections # <<>>
                   THEN Some([total_corrections |-> Len(corrections),
                              corrections |-> corrections,
                              import_issues |-> issues_found])
                   ELSE None
    /\ rpc' = "done"
    /\ UNCHANGED <<report, focus_on_issues, table, edits, row_i, corrections,
                   issues_found>>
    /\ UNCHANGED <<run_vars, compare_vars, pipeline_vars>>

ReviewNext ==
    \/ export_to_csv
    \/ EditCell
    \/ TruncateRow
    \/ ImportRow
    \/ SaveCorrections

ReviewSpec == ReviewInit /\ [][ReviewNext]_vars

\* ================================================ the two schedulers compared
\* _process_single_batch and _process_in_batches called with the same records,
\* start_offset and include_content_review, the service giving each record
\* the same reply in both.

\* the analysis run is not started
RunIdle ==
    /\ pc = "idle"
    /\ caller = "none"
    /\ source_n = 0
    /\ cli = NoCli
    /\ args = NoArgs
    /\ records = <<>>
    /\ start_offset = 0
    /\ results = NewResults(0)
    /\ batch_num = 0
    /\ i = 0
    /\ trace = <<>>
    /\ last = "none"
    /\ last_val = JNull
    /\ cmd_result = "none"

\* the arguments of the two calls: n records from position start_offset on
Jobs ==
    [n : 0..MaxN, start_offset : {0, 1}, batch_size : 1..(MaxN + 1),
     batch_delay : BatchDelays, include_content_review : BOOLEAN]

JobRecords(j) == [k \in 1..j.n |-> RecordAt(j.start_offset + k - 1)]

\* the position in the working set of the record a loop holds
PositionOf(j, record) == CHOOSE p \in 1..j.n : JobRecords(j)[p] = record

\* the reply the service gives the record at position p
OutcomeAt(p) == IF p <= Len(outcomes) THEN outcomes[p] ELSE Reply("error", JNull)

\* the body of either loop: _analyze_and_store_recipe on one record
ProcessRecord(res, record, recipe_idx, include_content_review, reply) ==
    LET categorization == _analyze_single_recipe(reply, include_content_review)
    IN  IF categorization.raised
        THEN [raised |-> TRUE, results |-> res]
        ELSE _analyze_and_store_recipe(res, record, recipe_idx,
                                       include_content_review,
                                       categorization.value)

\* ActualStartIdx without the offset of the working set
ActualStartIdx_NoOffset(offset, b, batch_size) == BatchStartIdx(b, batch_size)

\* actual_start_idx of batch b (266)
ActualStartIdx(offset, b, batch_size) == offset + BatchStartIdx(b, batch_size)

CompareInit ==
    /\ RunIdle
    /\ ReviewIdle
    /\ PipelineIdle
    /\ cpc = "single"
    /\ job \in Jobs
    /\ outcomes = <<>>
    /\ single_run = [results |-> NewResults(job.n), i |-> 0, raised |-> FALSE]
    /\ batch_run = [results |-> NewResults(job.n), batch_num |-> 0, i |-> 0,
                    raised |-> FALSE, sleeps |-> 0]

\* _process_single_batch: one iteration of the loop (321-331); the service
\* decides its reply for the record
SingleRecord ==
    /\ cpc = "single"
    /\ ~single_run.raised
    /\ single_run.i < job.n
    /\ \E reply \in Replies :
          LET record == JobRecords(job)[single_run.i + 1]
              recipe_idx == job.start_offset + single_run.i
              out == ProcessRecord(single_run.results, record, recipe_idx,
                                   job.include_content_review, reply)
          IN  /\ outcomes' = Append(outcomes, reply)
              /\ single_run' =
                    [results |-> out.results,
                     i |-> IF out.raised THEN single_run.i
                           ELSE single_run.i + 1,
                     raised |-> out.raised]
    /\ UNCHANGED <<cpc, job, batch_run>>
    /\ UNCHANGED <<run_vars, review_vars, pipeline_vars>>

\* _process_single_batch is left, by its end or by an exception
SingleDone ==
    /\ cpc = "single"
    /\ single_run.raised \/ single_run.i >= job.n
    /\ cpc' = "batch"
    /\ UNCHANGED <<job, outcomes, single_run, batch_run>>
    /\ UNCHANGED <<run_vars, review_vars, pipeline_vars>>

\* _process_in_batches: one iteration of the inner loop (282-292)
BatchRecord ==
    /\ cpc = "batch"
    /\ ~batch_run.raised
    /\ batch_run.batch_num < NumBatches(job.n, job.batch_size)
    /\ LET batch_records ==
               BatchRecords(JobRecords(job), batch_run.batch_num,
                            job.batch_size)
       IN  /\ batch_run.i < Len(batch_records)
           /\ LET record == batch_records[batch_run.i + 1]
                  recipe_idx ==
                      ActualStartIdx(job.start_offset, batch_run.batch_num,
                                     job.batch_size) + batch_run.i
                  out == ProcessRecord(batch_run.results, record, recipe_idx,
                                       job.include_content_review,
                                       OutcomeAt(PositionOf(job, record)))
              IN  batch_run' =
                     [batch_run EXCEPT
                        !.results = out.results,
                        !.i = IF out.raised THEN @ ELSE @ + 1,
                        !.raised = out.raised]
    /\ UNCHANGED <<cpc, job, outcomes, single_run>>
    /\ UNCHANGED <<run_vars, review_vars, pipeline_vars>>

\* _process_in_batches: the end of one batch (294-303), with its sleep
BatchComplete ==
    /\ cpc = "batch"
    /\ ~batch_run.raised
    /\ LET num_batches == NumBatches(job.n, job.batch_size)
       IN  /\ batch_run.batch_num < num_batches
           /\ batch_run.i >= Len(BatchRecords(JobRecords(job),
                                              batch_run.batch_num,
                                              job.batch_size))
           /\ batch_run' =
                 [batch_run EXCEPT
                    !.batch_num = @ + 1,
                    !.i = 0,
                    !.sleeps = IF SleepsAfter(job.batch_delay,
                                              batch_run.batch_num, num_batches)
                               THEN @ + 1 ELSE @]
    /\ UNCHANGED <<cpc, job, outcomes, single_run>>
    /\ UNCHANGED <<run_vars, review_vars, pipeline_vars>>

\* _process_in_batches is left, by its end or by an exception
BatchDone ==
    /\ cpc = "batch"
    /\ \/ batch_run.raised
       \/ batch_run.batch_num >= NumBatches(job.n, job.batch_size)
    /\ cpc' = "done"
    /\ UNCHANGED <<job, outcomes, single_run, batch_run>>
    /\ UNCHANGED <<run_vars, review_vars, pipeline_vars>>

CompareNext ==
    \/ SingleRecord
    \/ SingleDone
    \/ BatchRecord
    \/ BatchComplete
    \/ BatchDone

CompareSpec == CompareInit /\ [][CompareNext]_vars
\* ================================================================ run_pipeline
\* pipeline.py: the requested steps are validated, then run one after the
\* other; each step function calls the callback of its command.

\* valid_steps (128)
valid_steps == <<"extract", "analyze", "review">>

\* step names a caller may put on the command line
StepNames ==
    {"extract", "analyze", "review", "create-enhanced-database", "invalid"}
Requests == UNION {[1..n -> StepNames] : n \in 0..MaxSteps}

\* --profile values: none, one that loads, one that does not (138-148)
Profiles == {"", "testing", "missing"}

\* InvalidSteps looking at the first requested step only
InvalidSteps_FirstOnly(requested) ==
    IF requested # <<>>
       /\ \A k \in 1..Len(valid_steps) : valid_steps[k] # Head(requested)
    THEN <<Head(requested)>>
    ELSE <<>>

\* invalid_steps (129)
InvalidSteps(requested) ==
    SelectSeq(requested,
              LAMBDA s : \A k \in 1..Len(valid_steps) : valid_steps[k] # s)

\* one console.print of run_pipeline
Say(msg, arg) == [msg |-> msg, arg |-> arg]

\* how a command callback ended: it raised, or it returned (why: "completed"
\* or the failure it reported before returning early)
Ended(raised, why) == [raised |-> raised, why |-> why]

\* what the extract command may meet
ExtractEnvs ==
    [importable : BOOLEAN, config_ok : BOOLEAN, database_id : BOOLEAN,
     db_access : BOOLEAN, api_raises : BOOLEAN]

\* extract (extract_cmd.py 20-98)
extract_callback(e) ==
    IF ~e.config_ok THEN Ended(FALSE, "no_config")               \* 36-37
    ELSE IF ~e.database_id THEN Ended(FALSE, "no_database_id")   \* 40-43
    ELSE IF ~e.db_access THEN Ended(FALSE, "no_database")        \* 50-53
    ELSE IF e.api_raises THEN Ended(TRUE, "api_error")           \* 61-77
    ELSE Ended(FALSE, "completed")

\* what the analyze command may meet
NoKeyConfig == [FullConfig EXCEPT !.azure_openai_key = ""]
AnalyzeEnvs ==
    [importable : BOOLEAN, config : {FullConfig, NoKeyConfig},
     input_exists : BOOLEAN, loads : BOOLEAN, source_n : 0..1,
     use_llm : BOOLEAN, service_raises : BOOLEAN, limit : Opt({2})]

\* analyze as _run_analyze_step calls it (analyze_cmd.py 75-214): no range,
\* no indices, the limit as the sample
analyze_callback(e) ==
    LET r == ResolveSettings(NoCli.profile, e.limit, None, None, None)
    IN  IF ~r.ok THEN Ended(FALSE, "invalid_range")              \* 110-114
        ELSE IF ~e.input_exists THEN Ended(FALSE, "no_input")    \* 149-154
        ELSE IF ~e.loads THEN Ended(FALSE, "load_failed")        \* 162-164
        ELSE IF e.source_n = 0 THEN Ended(TRUE, "division by zero") \* 169
        ELSE IF ~e.use_llm THEN Ended(FALSE, "completed")
        ELSE IF validate_required(e.config).raised
        THEN Ended(FALSE, "config_error")                        \* 190-193
        ELSE IF e.service_raises THEN Ended(FALSE, "llm_error")  \* 194-196
        ELSE Ended(FALSE, "completed")

\* what the review command may meet
ReviewEnvs ==
    [importable : BOOLEAN, analysis_exists : BOOLEAN, reviewer_raises : BOOLEAN]

\* review (review_cmd.py 27-103)
review_callback(e) ==
    IF ~e.analysis_exists THEN Ended(FALSE, "no_analysis_file")  \* 47-52
    ELSE IF e.reviewer_raises THEN Ended(TRUE, "reviewer_error")
    ELSE Ended(FALSE, "completed")

\* how a step function ended: it returned, it raised PipelineStepError, or
\* another exception left it
StepResult(kind, why) == [kind |-> kind, why |-> why]

\* the body shared by the three step functions: the import of the command
\* stands outside the try, the callback inside
Wrapped(e, out) ==
    IF ~e.importable THEN StepResult("Exception", "import")
    ELSE IF out.raised THEN StepResult("PipelineStepError", out.why)
    ELSE StepResult("returned", out.why)

_run_extract_step(e) == Wrapped(e, extract_callback(e))

\* _run_analyze_step raising when the command did not complete
_run_analyze_step_Strict(e) ==
    IF ~e.importable THEN StepResult("Exception", "import")
    ELSE IF analyze_callback(e).why # "completed"
    THEN StepResult("PipelineStepError", analyze_callback(e).why)
    ELSE StepResult("returned", "completed")

\* _run_analyze_step (58-88)
_run_analyze_step(e) == Wrapped(e, analyze_callback(e))

_run_review_step(e) == Wrapped(e, review_callback(e))

\* what the command of a step may meet; a name without a step function
\* meets nothing
StepEnvs(step) ==
    CASE step = "extract" -> ExtractEnvs
      [] step = "analyze" -> AnalyzeEnvs
      [] step = "review" -> ReviewEnvs
      [] OTHER -> {[importable |-> TRUE]}

\* step_functions[step](ctx) (154-158, 165): KeyError for an unknown name
step_functions(step, e) ==
    CASE step = "extract" -> _run_extract_step(e)
      [] step = "analyze" -> _run_analyze_step(e)
      [] step = "review" -> _run_review_step(e)
      [] OTHER -> StepResult("Exception", "KeyError")

\* AfterStep going on with the next step whatever happened
AfterStep_Continue(kind) == "loop"

\* the loop after one step (164-176): both except clauses return
AfterStep(kind) == IF kind = "returned" THEN "loop" ELSE "failed"

PipelineInit ==
    /\ RunIdle
    /\ ReviewIdle
    /\ CompareIdle
    /\ ppc = "idle"
    /\ steps = <<>>
    /\ step_i = 0
    /\ executed = <<>>
    /\ console = <<>>
    /\ step_log = <<>>

\* run_pipeline up to the loop (124-158)
run_pipeline ==
    /\ ppc = "idle"
    /\ \E requested \in Requests, profile \in Profiles :
          /\ steps' = requested
          /\ IF InvalidSteps(requested) # <<>>
             THEN /\ console' = <<Say("invalid_steps", InvalidSteps(requested)),
                                  Say("valid_steps", valid_steps)>>
                  /\ ppc' = "rejected"
             ELSE /\ console' =
                        <<Say("running", requested)>>
                        \o (IF profile # ""
                            THEN <<Say("using_profile", <<profile>>)>>
                            ELSE <<>>)
                        \o (IF profile = "missing"
                            THEN <<Say("profile_not_loaded", <<profile>>)>>
                            ELSE <<>>)
                  /\ ppc' = "loop"
    /\ UNCHANGED <<step_i, executed, step_log>>
    /\ UNCHANGED <<run_vars, review_vars, compare_vars>>

\* one iteration of the loop over the steps (161-176)
ExecuteStep ==
    /\ ppc = "loop"
    /\ step_i < Len(steps)
    /\ LET step == steps[step_i + 1]
       IN  \E e \in StepEnvs(step) :
              LET r == step_functions(step, e)
                  remaining_steps == SubSeq(steps, step_i + 1, Len(steps))
              IN  /\ executed' = IF r.why = "KeyError" THEN executed
                                 ELSE Append(executed, step)
                  /\ step_log' = Append(step_log,
                                        [step |-> step, kind |-> r.kind,
                                         why |-> r.why])
                  /\ console' =
                        console \o <<Say("step", <<step>>)>>
                        \o (CASE r.kind = "returned" -> <<>>
                              [] r.kind = "PipelineStepError" ->
                                    <<Say("failed_at_step", <<step, r.why>>)>>
                                    \o (IF Len(remaining_steps) > 1
                                        THEN <<Say("restart_with",
                                                   remaining_steps)>>
                                        ELSE <<>>)
                              [] r.kind = "Exception" ->
                                    <<Say("unexpected_error",
                                          <<step, r.why>>)>>)
                  /\ ppc' = AfterStep(r.kind)
                  /\ step_i' = IF AfterStep(r.kind) = "loop"
                               THEN step_i + 1 ELSE step_i
    /\ UNCHANGED steps
    /\ UNCHANGED <<run_vars, review_vars, compare_vars>>

\* the loop is over (178)
CompletePipeline ==
    /\ ppc = "loop"
    /\ step_i >= Len(steps)
    /\ console' = Append(console, Say("completed", <<>>))
    /\ ppc' = "completed"
    /\ UNCHANGED <<steps, step_i, executed, step_log>>
    /\ UNCHANGED <<run_vars, review_vars, compare_vars>>

PipelineNext ==
    \/ run_pipeline
    \/ ExecuteStep
    \/ CompletePipeline

PipelineSpec == PipelineInit /\ [][PipelineNext]_vars
\* ===================================================================== claims
\* the run handed its report back to the caller
ReportReturned == pc = "returned" \/ (pc = "cmd_done" /\ cmd_result = "saved")

\* a range reached categorize_recipes_llm
RangeGiven == ~IsNone(args.start_index) \/ ~IsNone(args.end_index)

\* the worker invocations so far, in order
Calls == SelectSeq(trace, LAMBDA e : e.ev = "call")

\* the source positions p..q, as records
Positions(p, q) == [k \in 1..(q - p + 1) |-> RecordAt(p + k - 1)]

Clamp(x, lo, hi) == IF x < lo THEN lo ELSE IF x > hi THEN hi ELSE x

\* C1: every returned report satisfies
\*     total_analyzed + len(failed_analyses) == total_attempted,
\*     whatever the arguments and the service replies were.
C1_CountsAddUp ==
    ReportReturned =>
        results.total_analyzed + Len(results.failed_analyses)
            = results.total_attempted

\* C2: for a range [s, e] with 0 <= s <= e < N passed as start_index = s and
\*     end_index = e, the run reports total_attempted == e - s + 1.
C2_RangeCount ==
    (/\ pc = "selected"
     /\ ~IsNone(args.start_index) /\ ~IsNone(args.end_index)
     /\ 0 <= Val(args.start_index)
     /\ Val(args.start_index) <= Val(args.end_index)
     /\ Val(args.end_index) < source_n)
    => results.total_attempted
          = Val(args.end_index) - Val(args.start_index) + 1

\* C3: for a sample_size k <= N and no range, the run reports
\*     total_attempted == k (k a count: 0 <= k).
C3_SampleCount ==
    (/\ pc = "selected"
     /\ ~RangeGiven
     /\ ~IsNone(args.sample_size)
     /\ 0 <= Val(args.sample_size)
     /\ Val(args.sample_size) <= source_n)
    => results.total_attempted = Val(args.sample_size)

\* an index argument that is absent or already inside [0, N-1]
InRange(x) == IsNone(x) \/ Val(x) \in 0..(source_n - 1)

\* C4: with start_index and/or end_index supplied, the working set is exactly
\*     the records at positions start..end inclusive, start = start_index or 0,
\*     end = end_index if supplied else N-1, both clamped into [0, N-1].
\*     Stated for indices already inside [0, N-1], where clamping changes
\*     nothing.
C4_RangeWorkingSet ==
    (/\ pc = "selected"
     /\ RangeGiven
     /\ InRange(args.start_index)
     /\ InRange(args.end_index))
    => LET start == Clamp(OrElse(args.start_index, 0), 0, source_n - 1)
           end == Clamp(IF IsNone(args.end_index) THEN source_n - 1
                        ELSE Val(args.end_index), 0, source_n - 1)
       IN  records = Positions(start, end)

\* the sample size in effect in the command after --sample is applied (step 4)
EffectiveSample ==
    IF TruthyInt(cli.sample) THEN cli.sample ELSE cli.profile.sample_size

\* the range in effect in the command: --range over --start-index/--end-index
\* over the profile (steps 4 to 6)
EffectiveStart ==
    IF ~IsNone(cli.range_spec) THEN cli.range_spec[1]
    ELSE IF ~IsNone(cli.start_index) THEN cli.start_index
    ELSE IF TruthyInt(cli.sample) THEN None
    ELSE cli.profile.start_index
EffectiveEnd ==
    IF ~IsNone(cli.range_spec) THEN cli.range_spec[2]
    ELSE IF ~IsNone(cli.end_index) THEN cli.end_index
    ELSE IF TruthyInt(cli.sample) THEN None
    ELSE cli.profile.end_index
CommandRangeGiven == ~IsNone(EffectiveStart) \/ ~IsNone(EffectiveEnd)

\* the first k records of the source collection
FirstRecords(k) == Positions(0, Min(k, source_n) - 1)

C6_EveryRecordOnceInOrder ==
    /\ \A k \in 1..Len(Calls) :
          /\ Calls[k].recipe_idx >= 0
          /\ RecordAt(Calls[k].recipe_idx).title = Calls[k].title
    /\ \A k \in 1..(Len(Calls) - 1) :
          Calls[k].recipe_idx < Calls[k + 1].recipe_idx
    /\ (pc = "returned" \/ pc = "raised") =>
          /\ Len(Calls) = Len(records)
          /\ \A k \in 1..Len(Calls) : Calls[k].title = records[k].title

\* a step in which the worker got a timeout, a service error or a text that
\* is not JSON
FailKinds == {"timeout", "error", "text"}
FailedCallStep ==
    /\ Len(trace') = Len(trace) + 1
    /\ trace'[Len(trace')].ev = "call"
    /\ last' \in FailKinds

\* C7: a record whose call times out, raises a service error or returns text
\*     that is not JSON does not abort processing: the record is appended to
\*     failed_analyses, nothing else of the report changes, and the scheduler
\*     moves on to the next record of the batch exactly as after a success.
C7_FailureDoesNotAbort ==
    [][FailedCallStep =>
          /\ pc' = pc /\ pc \in {"single", "batch"}
          /\ i' = i + 1 /\ batch_num' = batch_num /\ records' = records
          /\ results' =
               [results EXCEPT
                  !.failed_analyses =
                     Append(@, [recipe_index |-> trace'[Len(trace')].recipe_idx,
                                title |-> trace'[Len(trace')].title,
                                existing_tags |-> <<>>])]]_vars

\* C7 witness: the first record of a batch of two timed out, was recorded as
\*     failed, and the second record of the batch is next.
C7_Witness ==
    /\ pc = "batch" /\ last = "timeout" /\ i = 1 /\ batch_num = 0
    /\ args.batch_size = Some(2) /\ Len(records) = 3
    /\ Len(results.failed_analyses) = 1
    /\ results.failed_analyses[1].recipe_index = start_offset

\* C8: whatever the service returns or raises, a run that passed
\*     configuration and selection completes and produces a report covering
\*     the whole working set.
C8_RunCompletes ==
    /\ pc # "raised"
    /\ cmd_result # "llm_error"
    /\ ReportReturned =>
          results.total_analyzed + Len(results.failed_analyses)
             = Len(records)

\* ceil(a / b) for b >= 1
CeilDiv(a, b) == IF a % b = 0 THEN a \div b ELSE (a \div b) + 1

\* the batches that got a worker call, and the calls of one batch
BatchesSeen == {Calls[k].batch : k \in 1..Len(Calls)}
BatchSize(n) == Cardinality({k \in 1..Len(Calls) : Calls[k].batch = n})

\* C9: for batch_size = b >= 1 the working set is processed in
\*     ceil(total_attempted / b) contiguous batches, each of exactly b records
\*     except the last, which may be smaller.
C9_Batches ==
    (pc \in {"single", "batch", "returned", "raised"}
       /\ TruthyInt(args.batch_size) /\ Val(args.batch_size) >= 1)
    => LET b == Val(args.batch_size)
           count == CeilDiv(results.total_attempted, b)
       IN  /\ \A k \in 1..Len(Calls) :
                 /\ Calls[k].batch = (k - 1) \div b
                 /\ Calls[k].title = records[k].title
           /\ BatchesSeen \subseteq 0..(count - 1)
           /\ pc = "returned" =>
                 /\ BatchesSeen = 0..(count - 1)
                 /\ \A n \in 0..(count - 2) : BatchSize(n) = b
                 /\ count >= 1 => BatchSize(count - 1) \in 1..b

\* C9 witness: three records with batch_size 2 went through as batches of
\*     two and one.
C9_Witness ==
    /\ pc = "returned" /\ args.batch_size = Some(2) /\ Len(records) = 3
    /\ BatchSize(0) = 2 /\ BatchSize(1) = 1 /\ BatchesSeen = {0, 1}

\* positions of the sleeps in the trace
SleepAt(k) == trace[k].ev = "sleep"
Sleeps == {k \in 1..Len(trace) : SleepAt(k)}

\* C10: the inter-batch delay occurs after every batch except the last and
\*      never after the last; with batch_delay 0, no batch_size or
\*      batch_size >= the working-set size there is no delay at all; no
\*      record of batch n+1 is requested before the delay after batch n.
C10_Delays ==
    (pc \in {"single", "batch", "returned", "raised"}) =>
      /\ (args.batch_delay <= 0 \/ ~TruthyInt(args.batch_size)
            \/ Val(args.batch_size) >= Len(records)) => Sleeps = {}
      /\ (args.batch_delay > 0 /\ TruthyInt(args.batch_size)
            /\ Val(args.batch_size) >= 1
            /\ Val(args.batch_size) < Len(records)) =>
            LET b == Val(args.batch_size)
                count == CeilDiv(Len(records), b)
            IN  \* a sleep follows the last record of a batch that is not
                \* the last batch
                /\ \A k \in Sleeps :
                      /\ k > 1 /\ trace[k - 1].ev = "call"
                      /\ trace[k - 1].batch = trace[k].batch
                      /\ trace[k].batch < count - 1
                      /\ BatchSize(trace[k].batch) = b
                \* a record of a later batch comes right after the sleep
                \* that follows the batch before it
                /\ \A k \in 2..Len(trace) :
                      (trace[k].ev = "call"
                         /\ trace[k - 1].batch # trace[k].batch) =>
                      /\ SleepAt(k - 1)
                      /\ trace[k - 1].batch = trace[k].batch - 1
                /\ Len(trace) >= 1 => trace[1].ev = "call"
                \* at the end: one sleep per batch but the last
                /\ pc = "returned" =>
                      /\ Cardinality(Sleeps) = count - 1
                      /\ ~SleepAt(Len(trace))

\* C10 witness: three records, batch_size 1, batch_delay 1: two sleeps, each
\*      between two batches.
C10_Witness ==
    /\ pc = "returned" /\ args.batch_delay = 1 /\ args.batch_size = Some(1)
    /\ Len(records) = 3 /\ Sleeps = {2, 4} /\ Len(trace) = 5

\* C11: within one run the service is called at most once per record: no
\*      record is requested twice, and a record whose call timed out, raised
\*      a service error or returned text that is not JSON is in
\*      failed_analyses exactly once and is never requested again.
C11_NoRetry ==
    /\ Len(Calls) <= Len(records)
    /\ \A a, b \in 1..Len(Calls) :
          a # b => Calls[a].title # Calls[b].title
    /\ \A a, b \in 1..Len(results.failed_analyses) :
          a # b => results.failed_analyses[a].title
                      # results.failed_analyses[b].title
    /\ \A a \in 1..Len(results.failed_analyses) :
          Cardinality({k \in 1..Len(Calls) :
                         Calls[k].title = results.failed_analyses[a].title}) = 1
    /\ last \in FailKinds =>
          /\ Len(results.failed_analyses) >= 1
          /\ results.failed_analyses[Len(results.failed_analyses)].title
                = Calls[Len(Calls)].title

\* C11 witness: of three records the first and the third timed out or
\*      failed, the run went on to the end with three calls in all, and each
\*      failed record is listed once.
C11_Witness ==
    /\ pc = "returned" /\ Len(records) = 3 /\ Len(Calls) = 3
    /\ last \in FailKinds
    /\ Len(results.failed_analyses) = 2
    /\ results.failed_analyses[1].title = records[1].title
    /\ results.failed_analyses[2].title = records[3].title
    /\ results.total_analyzed = 1

\* the keys _analyze_and_store_recipe stamps onto a parsed reply
StampedKeys == {"original_title", "existing_tags", "record_id", "recipe_index"}

\* C12: in content-review mode a reply that decodes as a JSON object lacking
\*      one or more of the required keys is accepted as a Categorization
\*      Result (stamped and appended as it is), counted in total_analyzed,
\*      and not recorded as a Failed Analysis.
C12_PartialAccepted ==
    (/\ Len(Calls) >= 1 /\ args.include_content_review
     /\ last = "json" /\ last_val.t = "obj"
     /\ MissingFields(last_val) # {})
    => LET c == Calls[Len(Calls)]
           n == Len(results.categorizations)
       IN  /\ n >= 1 /\ results.total_analyzed = n
           /\ results.categorizations[n].original_title = JStr(c.title)
           /\ results.categorizations[n].recipe_index = JNum(c.recipe_idx)
           /\ DOMAIN results.categorizations[n]
                 = DOMAIN last_val.v \cup StampedKeys
           /\ \A k \in DOMAIN last_val.v \ StampedKeys :
                 results.categorizations[n][k] = last_val.v[k]
           /\ \A k \in 1..Len(results.failed_analyses) :
                 results.failed_analyses[k].title # c.title

Exported == ExportRows(report, focus_on_issues)

\* the table differs from the exported one in cell f of row r only
OnlyEdited(r, f) ==
    /\ r \in 1..Len(table) /\ Len(table) = Len(Exported)
    /\ table[r][f] # Exported[r][f]
    /\ table = [Exported EXCEPT ![r][f] = table[r][f]]

\* the Correction of row r with the given corrections mapping
CorrectionOf(r, c) ==
    [recipe_index |-> PyInt(Val(Exported[r].recipe_index)),
     record_id |-> Exported[r].record_id,
     original_title |-> Exported[r].original_title,
     corrections |-> c]

\* C13: exporting a list of Categorization Results and importing the table
\*      unedited yields zero Corrections (total_corrections == 0) and no
\*      import issue, at every point of the import and at its end.
C13_RoundTrip ==
    (rpc \in {"importing", "done"} /\ table = Exported) =>
        /\ Len(corrections) = 0
        /\ issues_found = <<>>
        /\ rpc = "done" => row_i = Len(table)

\* C13 witness: a report of two results, one of them with a proposed title
\*      that differs from its title, exported whole and imported unedited.
C13_Witness ==
    /\ rpc = "done" /\ Len(report) = 2 /\ ~focus_on_issues
    /\ table = Exported /\ Len(table) = 2 /\ row_i = 2
    /\ table[2].proposed_title = Some("better")
    /\ corrections = <<>> /\ issues_found = <<>>

\* C14 (as claimed): filling only the corrected_title cell of one row with a
\*      value that differs from the row's original_title yields exactly one
\*      Correction, for that row, whose corrections are {title: that value}.
C14_TitleOnly ==
    rpc = "done" =>
      \A r \in 1..Len(table) :
         (OnlyEdited(r, "corrected_title")
            /\ table[r].corrected_title # table[r].original_title) =>
         corrections =
            <<CorrectionOf(r, "title" :> JStr(Val(table[r].corrected_title)))>>

\* C14 (amended): with only the corrected_title cell of one row filled, the
\*      import yields exactly one Correction, for that row, with corrections
\*      {title: the value with surrounding whitespace removed} when that
\*      trimmed value is non-empty and differs from original_title, and no
\*      Correction otherwise; never an import issue.
C14_TitleOnlyTrimmed ==
    rpc = "done" =>
      \A r \in 1..Len(table) :
         OnlyEdited(r, "corrected_title") =>
         LET v == Strip(Val(table[r].corrected_title))
         IN  /\ issues_found = <<>>
             /\ corrections =
                   IF v # "" /\ v # Val(table[r].original_title)
                   THEN <<CorrectionOf(r, "title" :> JStr(v))>>
                   ELSE <<>>

\* C14 witness: " Pie " typed into corrected_title of the second of two rows
\*      gave one Correction for recipe_index 1 with {title: "Pie"}.
C14_Witness ==
    /\ rpc = "done" /\ Len(table) = 2
    /\ OnlyEdited(2, "corrected_title")
    /\ table[2].corrected_title = Some(" Pie ")
    /\ Len(corrections) = 1
    /\ corrections[1].recipe_index = 1
    /\ corrections[1].corrections = ("title" :> JStr("Pie"))

\* the step imported one row and emitted a Correction for it
RowStep == row_i' = row_i + 1
Emitted == RowStep /\ Len(corrections') = Len(corrections) + 1

\* C15 (as claimed): a Correction contains is_recipe iff corrected_is_recipe
\*      is the literal true or false (case-insensitive) and that boolean
\*      differs from the stored is_recipe, the recorded value being the
\*      corrected boolean; it contains primary_category iff
\*      corrected_category is non-empty and differs from the stored
\*      primary_category.
C15_KeysIff ==
    [][Emitted =>
         LET row == table[row_i']
             c == corrections'[Len(corrections')].corrections
             cir == Lower(Val(row.corrected_is_recipe))
             cc == Val(row.corrected_category)
             stored == Lower(Val(row.is_recipe)) = "true"
         IN  /\ "is_recipe" \in DOMAIN c <=>
                   (cir \in {"true", "false"} /\ (cir = "true") # stored)
             /\ "is_recipe" \in DOMAIN c =>
                   c.is_recipe = JBool(cir = "true")
             /\ "primary_category" \in DOMAIN c <=>
                   (cc # "" /\ cc # Val(row.primary_category))]_vars

\* C15 (amended): the same with both cells read after removing surrounding
\*      whitespace: is_recipe is present iff the trimmed corrected_is_recipe
\*      is true or false (case-insensitive) and differs from the stored
\*      is_recipe; primary_category is present iff the trimmed
\*      corrected_category is non-empty and differs from the stored
\*      primary_category, and the value recorded is the trimmed text.
C15_KeysIffTrimmed ==
    [][Emitted =>
         LET row == table[row_i']
             c == corrections'[Len(corrections')].corrections
             cir == Lower(Strip(Val(row.corrected_is_recipe)))
             cc == Strip(Val(row.corrected_category))
             stored == Lower(Val(row.is_recipe)) = "true"
         IN  /\ "is_recipe" \in DOMAIN c <=>
                   (cir \in {"true", "false"} /\ (cir = "true") # stored)
             /\ "is_recipe" \in DOMAIN c =>
                   c.is_recipe = JBool(cir = "true")
             /\ "primary_category" \in DOMAIN c <=>
                   (cc # "" /\ cc # Val(row.primary_category))
             /\ "primary_category" \in DOMAIN c =>
                   c.primary_category = JStr(cc)]_vars

\* C15 witness: FALSE and Pork typed into a row stored as a Beef recipe gave
\*      a Correction with exactly is_recipe false and primary_category Pork.
C15_Witness ==
    /\ rpc \in {"importing", "done"} /\ row_i >= 1
    /\ table[1].is_recipe = Some("True")
    /\ table[1].primary_category = Some("Beef")
    /\ table[1].corrected_is_recipe = Some("FALSE")
    /\ table[1].corrected_category = Some("Pork")
    /\ Len(corrections) = 1
    /\ corrections[1].corrections
          = ("is_recipe" :> JBool(FALSE)) @@ ("primary_category" :> JStr("Pork"))

\* a row whose processing raises: a cell the code strips is missing, or
\* there is a review note to record and the recipe_index is not an integer
CellsStripped ==
    {"corrected_title", "corrected_category", "corrected_is_recipe",
     "review_notes"}
RowRaises(row) ==
    /\ ~IsNone(row.recipe_index) /\ Strip(Val(row.recipe_index)) # ""
    /\ \/ \E f \in CellsStripped : IsNone(row[f])
       \/ /\ Strip(Val(row.review_notes)) # ""
          /\ ~IntParses(Strip(Val(row.recipe_index)))

\* C16: a row whose processing raises adds exactly one import issue with
\*      that row's number (the header being row 1) and a message, emits no
\*      Correction, and the import goes on: it only ends once every row has
\*      been processed.
C16_RowIssue ==
    /\ [](rpc = "done" => row_i = Len(table))
    /\ [][(RowStep /\ RowRaises(table[row_i'])) =>
            /\ Len(issues_found') = Len(issues_found) + 1
            /\ SubSeq(issues_found', 1, Len(issues_found)) = issues_found
            /\ issues_found'[Len(issues_found')].row = row_i' + 1
            /\ issues_found'[Len(issues_found')].message # ""
            /\ corrections' = corrections
            /\ rpc' = "importing"]_vars

\* C16 witness: the first row came back cut short and became the issue of
\*      row 2; the second row, with a review note, still gave its Correction.
C16_Witness ==
    /\ rpc = "done" /\ Len(table) = 2
    /\ IsNone(table[1].review_notes)
    /\ table[2].review_notes = Some("ok")
    /\ Len(issues_found) = 1 /\ issues_found[1].row = 2
    /\ Len(corrections) = 1 /\ corrections[1].recipe_index = 1

\* C17: import_corrections always produces the artifact {total_corrections,
\*      corrections, import_issues} with all Corrections and all import
\*      issues, also when either list is empty.
C17_ArtifactAlways ==
    rpc = "done" =>
        /\ ~IsNone(artifact)
        /\ Val(artifact).total_corrections = Len(corrections)
        /\ Val(artifact).corrections = corrections
        /\ Val(artifact).import_issues = issues_found

\* a result the issues-only filter is meant to keep
Flagged(cat) ==
    \/ "is_recipe" \in DOMAIN cat /\ cat.is_recipe = JBool(FALSE)
    \/ "title_needs_improvement" \in DOMAIN cat
          /\ cat.title_needs_improvement = JBool(TRUE)
    \/ "quality_score" \in DOMAIN cat /\ cat.quality_score.v < 3

\* C18: with the issues-only filter export_to_csv emits one row for each
\*      result with is_recipe false, title_needs_improvement true or
\*      quality_score < 3 and none for any other; without it one row per
\*      result; rows follow the order of the report and their five review
\*      cells are empty.
C18_ExportedRows ==
    (rpc \in {"exported", "no_file"} /\ edits = 0) =>
        LET wanted == IF focus_on_issues THEN SelectSeq(report, Flagged)
                      ELSE report
        IN  /\ Len(table) = Len(wanted)
            /\ \A k \in 1..Len(table) :
                  /\ table[k].recipe_index
                        = Some(ToString(wanted[k].recipe_index.v))
                  /\ table[k].record_id = Some(wanted[k].record_id.v)
                  /\ table[k].original_title
                        = Some(wanted[k].original_title.v)
                  /\ \A f \in ReviewFieldNames : table[k][f] = Some("")

\* C18 witness: of a complete recipe and one flagged for its title only, the
\*      filter kept the second alone.
C18_Witness ==
    /\ rpc = "exported" /\ edits = 0 /\ focus_on_issues
    /\ report = <<Stamp(GoodRecipe.v, RecordAt(0), 0),
                  Stamp(NeedsTitle.v, RecordAt(1), 1)>>
    /\ Len(table) = 1 /\ table[1].recipe_index = Some("1")

\* C19: a row whose recipe_index cell is empty is skipped silently: it
\*      yields no Correction and no import issue, whatever its other cells
\*      hold.
C19_EmptyIndexSkipped ==
    [][(RowStep /\ table[row_i'].recipe_index = Some("")) =>
          /\ corrections' = corrections
          /\ issues_found' = issues_found
          /\ rpc' = "importing"]_vars

\* C19 witness: a row with its recipe_index blanked and a review note typed
\*      in was imported and left neither a Correction nor an issue.
C19_Witness ==
    /\ rpc = "done" /\ Len(table) >= 1
    /\ table[1].recipe_index = Some("")
    /\ table[1].review_notes = Some("ok")
    /\ corrections = <<>> /\ issues_found = <<>>

\* ------------------------------------------------------------------------ C21
\* the positions of the Categorization Results whose quality_score is > 0
Scored ==
    {k \in 1..Len(results.categorizations) :
        /\ "quality_score" \in DOMAIN results.categorizations[k]
        /\ results.categorizations[k].quality_score.t = "num"
        /\ results.categorizations[k].quality_score.v > 0}

RECURSIVE ScoreTotal(_)
ScoreTotal(S) ==
    IF S = {} THEN 0
    ELSE LET k == CHOOSE x \in S : TRUE
         IN  results.categorizations[k].quality_score.v + ScoreTotal(S \ {k})

AverageQuality == results.content_quality_stats.average_quality_score

\* C21: in every returned report average_quality_score is the sum of
\*      quality_score over the Categorization Results with quality_score > 0
\*      divided by their number, and 0 when there is none.
C21_AverageQuality ==
    ReportReturned =>
        IF Scored = {}
        THEN AverageQuality.num = 0
        ELSE AverageQuality.num * Cardinality(Scored)
                = ScoreTotal(Scored) * AverageQuality.den

\* a report with scores 4 and 1 and a result without a score: the mean is 5/2
C21_Witness ==
    /\ ReportReturned
    /\ Len(results.categorizations) = 3
    /\ Cardinality(Scored) = 2
    /\ AverageQuality = [num |-> 5, den |-> 2]

\* ------------------------------------------------------------------------ C25
\* a worker step that stored a Categorization Result, and the result stored
Stored == Len(results'.categorizations) = Len(results.categorizations) + 1
NewResult == results'.categorizations[Len(results'.categorizations)]

\* cat[k] is present and not null
NonNull(cat, k) == k \in DOMAIN cat /\ cat[k] # JNull

\* cat[k] is present, not null and not the empty text
NonEmpty(cat, k) == NonNull(cat, k) /\ cat[k] # JStr("")

\* d2 is d with the count of key raised by one and nothing else changed
Bumped(d, d2, key) ==
    /\ DOMAIN d2 = DOMAIN d \cup {key}
    /\ \A x \in DOMAIN d2 :
          d2[x] = (IF x \in DOMAIN d THEN d[x] ELSE 0)
                  + (IF x = key THEN 1 ELSE 0)

\* the distribution of field moves as `counted` tells
DistributionStep(dist, field, counted) ==
    IF counted
    THEN Bumped(results[dist], results'[dist], NewResult[field])
    ELSE results'[dist] = results[dist]

\* C25: on a successful outcome the category_distribution count of the
\*      result's primary_category grows by one iff primary_category is
\*      non-null, the cuisine_distribution count of its cuisine_type grows by
\*      one iff cuisine_type is non-null, and no other key of the two changes.
C25_CountedIffNonNull ==
    [][Stored =>
         /\ DistributionStep("category_distribution", "primary_category",
                             NonNull(NewResult, "primary_category"))
         /\ DistributionStep("cuisine_distribution", "cuisine_type",
                             NonNull(NewResult, "cuisine_type"))]_vars

\* C25 as the code has it: counted iff non-null and not the empty text
C25_CountedIffNonEmpty ==
    [][Stored =>
         /\ DistributionStep("category_distribution", "primary_category",
                             NonEmpty(NewResult, "primary_category"))
         /\ DistributionStep("cuisine_distribution", "cuisine_type",
                             NonEmpty(NewResult, "cuisine_type"))]_vars

\* two Beef recipes were counted, then a result with empty category and
\* cuisine was stored without touching either distribution
C25_Witness ==
    /\ Len(results.categorizations) = 3
    /\ last_val = EmptyCategory
    /\ results.category_distribution = (JStr("Beef") :> 2)
    /\ results.cuisine_distribution = (JStr("Mexican") :> 2)

\* ------------------------------------------------------------------------ C26
RECURSIVE Total(_)
Total(d) ==
    IF DOMAIN d = {} THEN 0
    ELSE LET k == CHOOSE x \in DOMAIN d : TRUE
         IN  d[k] + Total([x \in DOMAIN d \ {k} |-> d[x]])

\* C26: in every state of a run, the final report included, the counts of
\*      category_distribution sum to at most total_analyzed; a failed record
\*      adds nothing to the distribution.
C26_CategorySumBounded ==
    /\ [](Total(results.category_distribution) <= results.total_analyzed)
    /\ [][Len(results'.failed_analyses) > Len(results.failed_analyses) =>
            results'.category_distribution = results.category_distribution]_vars

\* a returned report with a failed record, a counted result and a result that
\* has no category: the sum 1 is below total_analyzed 2
C26_Witness ==
    /\ ReportReturned
    /\ Len(results.failed_analyses) = 1
    /\ results.total_analyzed = 2
    /\ Total(results.category_distribution) = 1

\* ------------------------------------------------------------------------ C27
\* the recipe_index values of the two lists of the report, in order
ResultIndices ==
    [k \in 1..Len(results.categorizations) |->
        results.categorizations[k].recipe_index.v]
FailedIndices ==
    [k \in 1..Len(results.failed_analyses) |->
        results.failed_analyses[k].recipe_index]

NoRepeat(s) == \A a, b \in 1..Len(s) : s[a] = s[b] => a = b
Elements(s) == {s[k] : k \in 1..Len(s)}

\* C27: in every Aggregate Report no recipe_index is both in a Categorization
\*      Result and in failed_analyses, and none appears twice in either list.
C27_IndicesDisjoint ==
    ReportReturned =>
        /\ Elements(ResultIndices) \cap Elements(FailedIndices) = {}
        /\ NoRepeat(ResultIndices)
        /\ NoRepeat(FailedIndices)

\* a report of a batched run over three records: two results around a failure
C27_Witness ==
    /\ ReportReturned
    /\ ~IsNone(args.batch_size)
    /\ Batched(args.batch_size, Len(records))
    /\ ResultIndices = <<0, 2>>
    /\ FailedIndices = <<1>>

\* ------------------------------------------------------------------------ C28
\* C28: for any working set, any fixed reply per record and any positive
\*      batch_size, _process_in_batches leaves the same report as
\*      _process_single_batch: the same categorizations and failed_analyses
\*      in the same order, the same counters and distributions, and it ends
\*      the same way (by its end or by the same exception).
C28_BatchingEquivalent ==
    cpc = "done" =>
        /\ batch_run.results = single_run.results
        /\ batch_run.raised = single_run.raised

\* three records from position 1 on in batches of two with a delay: the
\* batched run slept once and both runs hold two results and one failure
C28_Witness ==
    /\ cpc = "done"
    /\ job.n = 3 /\ job.batch_size = 2 /\ job.start_offset = 1
    /\ batch_run.sleeps = 1
    /\ ~single_run.raised
    /\ Len(single_run.results.categorizations) = 2
    /\ Len(batch_run.results.failed_analyses) = 1

\* ------------------------------------------------------------------------ C29
\* the recipe_index cell holds a text that is not empty and not an integer
NonIntegerIndex(row) ==
    /\ ~IsNone(row.recipe_index)
    /\ Strip(Val(row.recipe_index)) # ""
    /\ ~IntParses(Strip(Val(row.recipe_index)))

\* the row has all its review cells and none of them asks for a change: each
\* corrected cell is blank or repeats the stored value, review_notes is blank
Unedited(row) ==
    /\ \A f \in CellsStripped : ~IsNone(row[f])
    /\ Strip(Val(row.corrected_title)) \in {"", Val(row.original_title)}
    /\ Strip(Val(row.corrected_category)) \in {"", Val(row.primary_category)}
    /\ Lower(Strip(Val(row.corrected_is_recipe)))
          \in {"", Lower(Val(row.is_recipe))}
    /\ Strip(Val(row.review_notes)) = ""

\* C29: recipe_index is converted to an integer only for a row that carries
\*      a correction: a row with a non-empty, non-integer recipe_index and
\*      no edited field yields neither a Correction nor an import issue.
C29_IndexNotConverted ==
    [][(RowStep /\ NonIntegerIndex(table[row_i']) /\ Unedited(table[row_i']))
          => /\ corrections' = corrections
             /\ issues_found' = issues_found]_vars

\* a row whose recipe_index was overwritten with abc and whose
\* corrected_category repeats the stored Beef was imported without a trace
C29_Witness ==
    /\ rpc = "done" /\ Len(table) >= 1
    /\ table[1].recipe_index = Some("abc")
    /\ table[1].corrected_category = Some("Beef")
    /\ table[1].primary_category = Some("Beef")
    /\ corrections = <<>> /\ issues_found = <<>>

\* ------------------------------------------------------------------------ C22
\* a step function raised during the pipeline
StepRaised == \E k \in 1..Len(step_log) : step_log[k].kind # "returned"
Reported(msg) == \E k \in 1..Len(console) : console[k].msg = msg

\* C22: run_pipeline executes the requested steps strictly in the order
\*      given, each at most once; when a step raises the pipeline stops
\*      there, no later step is executed and the success message is not
\*      reported.
C22_InOrderStopOnRaise ==
    /\ [](/\ Len(executed) <= Len(steps)
          /\ executed = SubSeq(steps, 1, Len(executed))
          /\ (StepRaised =>
                /\ ppc = "failed"
                /\ step_log[Len(step_log)].kind # "returned"
                /\ \A k \in 1..(Len(step_log) - 1) :
                      step_log[k].kind = "returned"
                /\ Len(executed) = Len(step_log)
                /\ ~Reported("completed")))
    /\ [][ppc = "failed" => UNCHANGED <<executed, console>>]_vars

\* extract ran, analyze raised and review was never called
C22_Witness ==
    /\ ppc = "failed"
    /\ steps = <<"extract", "analyze", "review">>
    /\ executed = <<"extract", "analyze">>
    /\ step_log[2].kind = "PipelineStepError"
    /\ Reported("restart_with")

\* ------------------------------------------------------------------------ C23
\* C23: if any requested step name is not a valid step, run_pipeline
\*      executes no step at all, reports the invalid names and returns
\*      without raising.
C23_InvalidRejected ==
    (/\ ppc # "idle"
     /\ \E k \in 1..Len(steps) : steps[k] \notin {"extract", "analyze", "review"})
       => /\ ppc = "rejected"
          /\ executed = <<>>
          /\ step_log = <<>>
          /\ Len(console) = 2
          /\ console[1].msg = "invalid_steps"
          /\ \A s \in StepNames :
                (\E k \in 1..Len(console[1].arg) : console[1].arg[k] = s)
                   <=> (/\ \E k \in 1..Len(steps) : steps[k] = s
                        /\ s \notin {"extract", "analyze", "review"})

\* a valid step followed by an invalid one: nothing was executed
C23_Witness ==
    /\ ppc = "rejected"
    /\ steps = <<"extract", "invalid">>
    /\ executed = <<>>
    /\ console[1] = Say("invalid_steps", <<"invalid">>)

\* ------------------------------------------------------------------------ C24
\* C24: create-enhanced-database is a valid pipeline step: the pipeline
\*      'analyze create-enhanced-database' runs both steps in order and, no
\*      step raising, reports successful completion; the list of valid steps
\*      shown for an invalid request includes create-enhanced-database.
C24_EnhancedDatabaseStep ==
    /\ (/\ steps = <<"analyze", "create-enhanced-database">>
        /\ ppc \in {"rejected", "failed", "completed"}
        /\ ~StepRaised)
          => /\ executed = steps
             /\ Reported("completed")
    /\ \A k \in 1..Len(console) :
          console[k].msg = "valid_steps" =>
             \E n \in 1..Len(console[k].arg) :
                console[k].arg[n] = "create-enhanced-database"

\* ------------------------------------------------------------------------ C30
\* the failures the analyze command reports by returning early
AnalyzeEarlyReturns ==
    {"config_error", "llm_error", "invalid_range", "no_input", "load_failed"}

\* the step just run was an analyze step whose command reported one of them
AnalyzeReturnedEarly ==
    /\ Len(step_log') = Len(step_log) + 1
    /\ step_log'[Len(step_log')].step = "analyze"
    /\ step_log'[Len(step_log')].why \in AnalyzeEarlyReturns

\* C30: a step whose command reports its failure by returning early instead
\*      of raising does not stop run_pipeline: the loop goes on with the
\*      next step, and a pipeline none of whose step functions raised ends
\*      with every step executed and the success message.
C30_EarlyReturnGoesOn ==
    /\ [][AnalyzeReturnedEarly =>
            /\ step_log'[Len(step_log')].kind = "returned"
            /\ ppc' = "loop"
            /\ step_i' = step_i + 1
            /\ console' = Append(console, Say("step", <<"analyze">>))]_vars
    /\ []((ppc \in {"failed", "completed"} /\ ~StepRaised) =>
            /\ ppc = "completed"
            /\ executed = steps
            /\ console[Len(console)] = Say("completed", <<>>))

\* analyze returned on a configuration error, review still ran and the
\* pipeline reported success
C30_Witness ==
    /\ ppc = "completed"
    /\ steps = <<"analyze", "review">>
    /\ executed = steps
    /\ step_log[1].why = "config_error"
    /\ step_log[2].kind = "returned"
    /\ Reported("completed")

====
